---- MODULE Spec2Model ----
(***************************************************************************)
(* umtk.image: helper functions over 3-D volumes (depth, height, width).   *)
(*   geometry.py  zflip, yflip, xflip, resize, crop, center_crop           *)
(*   io.py        read_itk                                                 *)
(* The functions are stateless; the state below is the caller's view: the  *)
(* input volume, the log of calls made on it, the position inside a        *)
(* running resize call, and the file handed to read_itk with the values    *)
(* the calls returned.                                                     *)
(***************************************************************************)
EXTENDS Integers, Sequences, FiniteSets, TLC

VARIABLES
    img,        \* the caller's input volume (geometry.py)
    calls,      \* log of finished flip / crop / center_crop calls
    rz,         \* the frame of the running resize call (geometry.py:19-48)
    x,          \* the volume a resize round trip started from
    file,       \* the image file read_itk is called on (io.py)
    rets        \* read_itk's return value per (read_header, reorient)

vars == <<img, calls, rz, x, file, rets>>

(***************************************************************************)
(* Bounds                                                                  *)
(***************************************************************************)
MaxExtent == 2      \* largest extent of an input volume on one axis
MaxCalls == 4       \* longest chain of flips applied to one volume
MaxSize == 4        \* largest extent a resize is asked for on one axis

Min(a, b) == IF a < b THEN a ELSE b
Max(a, b) == IF a > b THEN a ELSE b

(***************************************************************************)
(* numpy.ndarray with ndim = 3: an element type, a shape and one element   *)
(* per index.  Indices are 0-based as in the source.                       *)
(***************************************************************************)
Indices(shape) == (0..(shape[1] - 1)) \X (0..(shape[2] - 1)) \X (0..(shape[3] - 1))

NdArray(dtype, shape, data) ==
    [dtype |-> dtype, shape |-> shape, data |-> data]

\* A volume whose elements are pairwise distinct: base + the row-major
\* position of the element (numpy.arange(n).reshape(shape) + base).
Arange(shape, base) ==
    LET pos(i) == (i[1] * shape[2] + i[2]) * shape[3] + i[3]
    IN  NdArray("int64", shape, [i \in Indices(shape) |-> base + pos(i)])

Shapes(lo, hi) == (lo..hi) \X (lo..hi) \X (lo..hi)

\* The value of a variable no call of the running scenario touches.
Unused == "unused"

(***************************************************************************)
(* Basic slicing of one axis of extent n: the sequence of source indices   *)
(* the slice selects, in order.                                            *)
(***************************************************************************)
\* a[:]
FullSlice(n) == [i \in 1..n |-> i - 1]

\* a[::-1]
ReverseSlice(n) == [i \in 1..n |-> n - i]

\* a[start:stop] with integer bounds: a negative bound counts from the end,
\* then both are clipped to 0..n; an empty range selects nothing.
RangeSlice(start, stop, n) ==
    LET s == IF start < 0 THEN Max(start + n, 0) ELSE Min(start, n)
        e == IF stop < 0 THEN Max(stop + n, 0) ELSE Min(stop, n)
    IN  [i \in 1..Max(e - s, 0) |-> s + i - 1]

\* a[zs, ys, xs]: the volume made of the selected planes, rows and columns.
Take(a, zs, ys, xs) ==
    NdArray(a.dtype, <<Len(zs), Len(ys), Len(xs)>>,
            [i \in Indices(<<Len(zs), Len(ys), Len(xs)>>) |->
               a.data[<<zs[i[1] + 1], ys[i[2] + 1], xs[i[3] + 1]>>]])

(***************************************************************************)
(* geometry.py:7-16  flips                                                 *)
(***************************************************************************)
\* the reversal followed by a swap of the first two axes.
zflipTransposed(a) ==
    LET r == Take(a, ReverseSlice(a.shape[1]), FullSlice(a.shape[2]), FullSlice(a.shape[3]))
    IN  NdArray(a.dtype, <<r.shape[2], r.shape[1], r.shape[3]>>,
                [i \in Indices(<<r.shape[2], r.shape[1], r.shape[3]>>) |->
                   r.data[<<i[2], i[1], i[3]>>]])
\* a[-1:0:-1]: the reversal that stops before index 0.
zflipDropFirst(a) ==
    Take(a, [i \in 1..Max(a.shape[1] - 1, 0) |-> a.shape[1] - i],
         FullSlice(a.shape[2]), FullSlice(a.shape[3]))
zflip(a) ==
    Take(a, ReverseSlice(a.shape[1]), FullSlice(a.shape[2]), FullSlice(a.shape[3]))

yflip(a) ==
    Take(a, FullSlice(a.shape[1]), ReverseSlice(a.shape[2]), FullSlice(a.shape[3]))

xflip(a) ==
    Take(a, FullSlice(a.shape[1]), FullSlice(a.shape[2]), ReverseSlice(a.shape[3]))

FlipNames == {"zflip", "yflip", "xflip"}

\* The flip called fn, applied to a.
ApplyFlip(fn, a) ==
    CASE fn = "zflip" -> zflip(a)
      [] fn = "yflip" -> yflip(a)
      [] fn = "xflip" -> xflip(a)

\* The axis a flip reverses.
FlipAxis(fn) == CASE fn = "zflip" -> 1 [] fn = "yflip" -> 2 [] fn = "xflip" -> 3

(***************************************************************************)
(* geometry.py:51-58  crop                                                 *)
(***************************************************************************)
\* point unpacked in width-height-depth order.
cropXYZ(a, point, size) ==
    LET z == point[3]  y == point[2]  xx == point[1]
        d == size[1]   h == size[2]   w == size[3]
    IN  Take(a, RangeSlice(z, z + d, a.shape[1]),
                RangeSlice(y, y + h, a.shape[2]),
                RangeSlice(xx, xx + w, a.shape[3]))
\* the window moved back inside the volume instead of being cut.
cropShifted(a, point, size) ==
    LET st(k) == IF point[k] >= 0 /\ size[k] >= 0 /\ point[k] + size[k] > a.shape[k]
                 THEN Max(a.shape[k] - size[k], 0) ELSE point[k]
    IN  Take(a, RangeSlice(st(1), st(1) + size[1], a.shape[1]),
                RangeSlice(st(2), st(2) + size[2], a.shape[2]),
                RangeSlice(st(3), st(3) + size[3], a.shape[3]))
crop(a, point, size) ==
    LET z == point[1]  y == point[2]  xx == point[3]
        d == size[1]   h == size[2]   w == size[3]
    IN  Take(a, RangeSlice(z, z + d, a.shape[1]),
                RangeSlice(y, y + h, a.shape[2]),
                RangeSlice(xx, xx + w, a.shape[3]))

(***************************************************************************)
(* geometry.py:61-92  center_crop                                          *)
(***************************************************************************)
\* the start rounded up instead of down.
get_center_crop_coords_ceil(d, h, w, cd, ch, cw) ==
    LET z1 == (d - cd + 1) \div 2
        y1 == (h - ch + 1) \div 2
        x1 == (w - cw + 1) \div 2
    IN  [x1 |-> x1, y1 |-> y1, x2 |-> x1 + cw, y2 |-> y1 + ch, z1 |-> z1, z2 |-> z1 + cd]
get_center_crop_coords(d, h, w, cd, ch, cw) ==
    LET z1 == (d - cd) \div 2
        z2 == z1 + cd
        y1 == (h - ch) \div 2
        y2 == y1 + ch
        x1 == (w - cw) \div 2
        x2 == x1 + cw
    IN  [x1 |-> x1, y1 |-> y1, x2 |-> x2, y2 |-> y2, z1 |-> z1, z2 |-> z2]

center_crop(a, crop_depth, crop_height, crop_width) ==
    LET c == get_center_crop_coords(a.shape[1], a.shape[2], a.shape[3],
                                    crop_depth, crop_height, crop_width)
    IN  Take(a, RangeSlice(c.z1, c.z2, a.shape[1]),
                RangeSlice(c.y1, c.y2, a.shape[2]),
                RangeSlice(c.x1, c.x2, a.shape[3]))

(***************************************************************************)
(* Callers of the flips: a chain of flips, each applied to the value the   *)
(* previous one returned.                                                  *)
(***************************************************************************)
FlipInputs == { Arange(s, 0) : s \in Shapes(0, MaxExtent) }

\* The value the next call of a chain is applied to.
Current == IF calls = <<>> THEN img ELSE calls[Len(calls)].ret

InitFlip ==
    /\ img \in FlipInputs
    /\ calls = <<>>
    /\ rz = Unused /\ x = Unused /\ file = Unused /\ rets = Unused

CallFlip(fn) ==
    /\ Len(calls) < MaxCalls
    /\ calls' = Append(calls, [fn |-> fn, arg |-> Current, ret |-> ApplyFlip(fn, Current)])
    /\ UNCHANGED <<img, rz, x, file, rets>>

CallZflip == CallFlip("zflip")
CallYflip == CallFlip("yflip")
CallXflip == CallFlip("xflip")

NextFlip == CallZflip \/ CallYflip \/ CallXflip

SpecFlip == InitFlip /\ [][NextFlip]_vars

(***************************************************************************)
(* Callers of crop and center_crop: one call on the input volume.          *)
(***************************************************************************)
CropInputs == { Arange(s, 0) : s \in Shapes(0, MaxExtent) }
Offsets == (0 - 2)..2
Extents == (0 - 1)..3
Points == Offsets \X Offsets \X Offsets
Sizes == Extents \X Extents \X Extents
CropExtents == 0..(MaxExtent + 1)

InitCrop ==
    /\ img \in CropInputs
    /\ calls = <<>>
    /\ rz = Unused /\ x = Unused /\ file = Unused /\ rets = Unused

CallCrop ==
    /\ calls = <<>>
    /\ \E point \in Points, size \in Sizes :
         calls' = <<[fn |-> "crop", arg |-> img, point |-> point, size |-> size,
                     ret |-> crop(img, point, size)]>>
    /\ UNCHANGED <<img, rz, x, file, rets>>

CallCenterCrop ==
    /\ calls = <<>>
    /\ \E cd \in CropExtents, ch \in CropExtents, cw \in CropExtents :
         calls' = <<[fn |-> "center_crop", arg |-> img, point |-> <<0, 0, 0>>,
                     size |-> <<cd, ch, cw>>,
                     ret |-> center_crop(img, cd, ch, cw)]>>
    /\ UNCHANGED <<img, rz, x, file, rets>>

NextCrop == CallCrop \/ CallCenterCrop

SpecCrop == InitCrop /\ [][NextCrop]_vars

(***************************************************************************)
(* geometry.py:19-48  resize                                               *)
(* A call is a frame that moves through the statements of the function:    *)
(*   "assert" (38) -> "convert" (39-40) -> "interpolate" (41-46)           *)
(*   -> "return" (47-48) -> "done", or ends in the exception raised.       *)
(* A float32 tensor holds value data[i] + frac[i] / den at index i.        *)
(***************************************************************************)
\* a third mode let through.
ValidModesWithBicubic == {"nearest", "trilinear", "bicubic"}
ValidModes == {"nearest", "trilinear"}

TwoTo24 == 16777216

RECURSIVE UlpOf(_, _)
\* The spacing of float32 values around magnitude m: the least power of two
\* u with m < 2^24 * u.
UlpOf(m, u) == IF m < TwoTo24 * u THEN u ELSE UlpOf(m, 2 * u)

\* astype(np.float32) of an integer: the nearest float32, ties to the even
\* significand.
ToFloat32(v) ==
    LET m   == IF v < 0 THEN 0 - v ELSE v
        u   == UlpOf(m, 1)
        q   == m \div u
        r   == m % u
        up  == \/ 2 * r > u
               \/ 2 * r = u /\ q % 2 = 1
        f   == IF up THEN (q + 1) * u ELSE q * u
    IN  IF v < 0 THEN 0 - f ELSE f

\* torch.from_numpy(src.astype(np.float32)).unsqueeze(0).unsqueeze(0)
Convert(src) ==
    [shape |-> src.shape, den |-> 1,
     data  |-> [i \in Indices(src.shape) |-> ToFloat32(src.data[i])],
     frac  |-> [i \in Indices(src.shape) |-> 0]]

\* the ratio of the extents taken upside down.
NearestIndexInverted(i, n, m) == Min((i * m) \div n, n - 1)
\* mode="nearest": the source index of output index i on an axis resampled
\* from extent n to extent m.
NearestIndex(i, n, m) == Min((i * n) \div m, n - 1)

\* mode="trilinear", align_corners=False: the two source indices and their
\* weights (numerators over 2m) of output index i on one axis.
LinearTaps(i, n, m) ==
    LET c   == Max((2 * i + 1) * n - m, 0)
        i0  == c \div (2 * m)
        l1  == c % (2 * m)
        i1  == IF i0 < n - 1 THEN i0 + 1 ELSE i0
    IN  [i0 |-> i0, i1 |-> i1, w0 |-> 2 * m - l1, w1 |-> l1]

SetMin(S) == CHOOSE v \in S : \A w \in S : v <= w

RECURSIVE SumOver(_, _)
SumOver(S, f) ==
    IF S = {} THEN 0
    ELSE LET e == CHOOSE e \in S : TRUE IN f[e] + SumOver(S \ {e}, f)

\* F.interpolate(tensor, size=size, mode="nearest")
InterpolateNearest(t, size) ==
    [shape |-> size, den |-> 1,
     data  |-> [i \in Indices(size) |->
                  t.data[<<NearestIndex(i[1], t.shape[1], size[1]),
                           NearestIndex(i[2], t.shape[2], size[2]),
                           NearestIndex(i[3], t.shape[3], size[3])>>]],
     frac  |-> [i \in Indices(size) |-> 0]]

\* F.interpolate(tensor, size=size, mode="trilinear", align_corners=False):
\* each output element is the blend of its 8 surrounding source elements.
\* The blend is taken with exact weights.
InterpolateTrilinear(t, size) ==
    LET den == 8 * size[1] * size[2] * size[3]
        Corners == {0, 1} \X {0, 1} \X {0, 1}
        blend(i) ==
            LET tz == LinearTaps(i[1], t.shape[1], size[1])
                ty == LinearTaps(i[2], t.shape[2], size[2])
                tx == LinearTaps(i[3], t.shape[3], size[3])
                at(tp, b) == IF b = 0 THEN tp.i0 ELSE tp.i1
                wt(tp, b) == IF b = 0 THEN tp.w0 ELSE tp.w1
                val == [c \in Corners |-> t.data[<<at(tz, c[1]), at(ty, c[2]), at(tx, c[3])>>]]
                lo  == SetMin({val[c] : c \in Corners})
                s   == SumOver(Corners,
                               [c \in Corners |->
                                  wt(tz, c[1]) * wt(ty, c[2]) * wt(tx, c[3]) * (val[c] - lo)])
            IN  [q |-> lo + s \div den, r |-> s % den]
    IN  [shape |-> size, den |-> den,
         data  |-> [i \in Indices(size) |-> blend(i).q],
         frac  |-> [i \in Indices(size) |-> blend(i).r]]

\* tensor.numpy()[0, 0, ...] as float32, or cast to the element type of src:
\* the cast to an integer type drops the fraction (towards zero).
ToNumpy(t, to_float, dtype) ==
    IF to_float
    THEN [dtype |-> "float32", shape |-> t.shape, data |-> t.data,
          frac |-> t.frac, den |-> t.den]
    ELSE [dtype |-> dtype, shape |-> t.shape,
          data |-> [i \in Indices(t.shape) |->
                      IF t.data[i] < 0 /\ t.frac[i] > 0 THEN t.data[i] + 1 ELSE t.data[i]]]

\* The frame of a call resize(src, size, to_float, mode); n counts the calls
\* of the round trip.
ResizeFrame(n, src, size, to_float, mode) ==
    [n |-> n, pc |-> "assert", src |-> src, size |-> size, to_float |-> to_float,
     mode |-> mode, tensor |-> <<>>, ret |-> <<>>]

Bases == {0, TwoTo24 + 1}
ResizeInputs == { Arange(s, b) : s \in Shapes(0, MaxExtent), b \in Bases }
ResizeSizes == Shapes(0, MaxSize)
Modes == {"nearest", "trilinear", "bicubic"}

InitResize ==
    /\ x \in ResizeInputs
    /\ \E size \in ResizeSizes, to_float \in BOOLEAN, mode \in Modes :
         rz = ResizeFrame(1, x, size, to_float, mode)
    /\ img = Unused /\ calls = Unused /\ file = Unused /\ rets = Unused

\* line 38
ResizeAssert ==
    /\ rz.pc = "assert"
    /\ rz' = [rz EXCEPT !.pc = IF rz.mode \in ValidModes THEN "convert"
                                ELSE "AssertionError"]
    /\ UNCHANGED <<img, calls, x, file, rets>>

\* lines 39-40
ResizeConvert ==
    /\ rz.pc = "convert"
    /\ rz' = [rz EXCEPT !.pc = "interpolate", !.tensor = <<Convert(rz.src)>>]
    /\ UNCHANGED <<img, calls, x, file, rets>>

\* lines 41-46: the resampling primitive rejects an empty input, a
\* non-positive target extent and a mode it has no 3-D kernel for.
ResizeInterpolate ==
    /\ rz.pc = "interpolate"
    /\ LET t == rz.tensor[1] IN
       rz' = IF rz.mode \notin {"nearest", "trilinear"}
             THEN [rz EXCEPT !.pc = "NotImplementedError"]
             ELSE IF \E k \in 1..3 : t.shape[k] <= 0 \/ rz.size[k] <= 0
             THEN [rz EXCEPT !.pc = "RuntimeError"]
             ELSE [rz EXCEPT !.pc = "return",
                             !.tensor = IF rz.mode = "nearest"
                                        THEN <<InterpolateNearest(t, rz.size)>>
                                        ELSE <<InterpolateTrilinear(t, rz.size)>>]
    /\ UNCHANGED <<img, calls, x, file, rets>>

\* lines 47-48
ResizeReturn ==
    /\ rz.pc = "return"
    /\ rz' = [rz EXCEPT !.pc = "done",
                        !.ret = <<ToNumpy(rz.tensor[1], rz.to_float, rz.src.dtype)>>]
    /\ UNCHANGED <<img, calls, x, file, rets>>

\* The caller resizes the returned volume back to the shape of x:
\* resize(resize(x, size, mode=mode), x.shape, mode=mode).
CallResizeBack ==
    /\ rz.pc = "done" /\ rz.n = 1 /\ ~rz.to_float
    /\ rz' = ResizeFrame(2, rz.ret[1], x.shape, rz.to_float, rz.mode)
    /\ UNCHANGED <<img, calls, x, file, rets>>

NextResize ==
    \/ ResizeAssert
    \/ ResizeConvert
    \/ ResizeInterpolate
    \/ ResizeReturn
    \/ CallResizeBack

SpecResize == InitResize /\ [][NextResize]_vars

(***************************************************************************)
(* Properties of resize                                                    *)
(***************************************************************************)
\* C3: a mode other than "nearest" and "trilinear" ends the call in an
\* AssertionError with no tensor converted and nothing interpolated or
\* returned; with "nearest" or "trilinear" the assertion never fails.
C3_ModeAssertedFirst ==
    /\ rz.mode \notin {"nearest", "trilinear"} =>
         /\ rz.pc \in {"assert", "AssertionError"}
         /\ rz.tensor = <<>>
         /\ rz.ret = <<>>
    /\ rz.mode \in {"nearest", "trilinear"} => rz.pc # "AssertionError"
    /\ rz.pc = "AssertionError" => rz.tensor = <<>> /\ rz.ret = <<>>

\* A call with mode "bicubic" has failed its assertion.
C3_Witness == rz.pc = "AssertionError" /\ rz.mode = "bicubic"

\* A call with a valid mode went past the assertion and returned.
C3_WitnessValid == rz.pc = "done" /\ rz.mode = "trilinear"

\* The second call of a nearest-neighbour round trip through a size that is
\* a positive multiple of the shape of x on each axis has returned.
RoundTripDone ==
    /\ rz.n = 2 /\ rz.pc = "done" /\ rz.mode = "nearest" /\ ~rz.to_float
    /\ \A k \in 1..3 : /\ x.shape[k] > 0
                       /\ rz.src.shape[k] >= x.shape[k]
                       /\ rz.src.shape[k] % x.shape[k] = 0

Round(c) ==
    LET q == c \div 10
        r == c % 10
    IN  IF r < 5 THEN q
        ELSE IF r > 5 THEN q + 1
        ELSE IF q % 2 = 0 THEN q ELSE q + 1

\* numpy.flip(a, axes), axes a set of 0-based axis numbers.
Flip(a, axes) ==
    LET sl(k) == IF (k - 1) \in axes THEN ReverseSlice(a.shape[k])
                 ELSE FullSlice(a.shape[k])
    IN  Take(a, sl(1), sl(2), sl(3))

\* a[::-1] of a 3-vector
Reversed(v) == <<v[3], v[2], v[1]>>

\* the picked cosines left in width-height-depth order.
NegativeAxesUnreversed(directions) ==
    LET picked == <<directions[0], directions[4], directions[8]>>
    IN  { k - 1 : k \in { j \in 1..3 : picked[j] < 0 } }
\* lines 27-28: np.where(directions[[0, 4, 8]][::-1] < 0)[0]
NegativeAxes(directions) ==
    LET picked == <<directions[0], directions[4], directions[8]>>
        rev    == Reversed(picked)
    IN  { k - 1 : k \in { j \in 1..3 : rev[j] < 0 } }

\* the cosines taken in width-height-depth order.
HeaderDirectionUnreversed(f, reorient) ==
    IF reorient THEN <<1, 1, 1>>
    ELSE LET d == f.direction IN <<Round(d[0]), Round(d[4]), Round(d[8])>>
\* lines 31-35
HeaderDirection(f, reorient) ==
    IF reorient THEN <<1, 1, 1>>
    ELSE LET d == f.direction IN <<Round(d[8]), Round(d[4]), Round(d[0])>>

\* spacing and origin left in width-height-depth order.
HeaderNative(f, reorient) ==
    [spacing   |-> f.spacing,
     direction |-> HeaderDirection(f, reorient),
     origin    |-> f.origin]
\* lines 36-40
Header(f, reorient) ==
    [spacing   |-> Reversed(f.spacing),
     direction |-> HeaderDirection(f, reorient),
     origin    |-> Reversed(f.origin)]

\* The value read_itk(file_path, read_header, reorient) returns for the
\* file f: the pair (image, header), or the image alone.
read_itk(f, read_header, reorient) ==
    LET image == IF reorient THEN Flip(f.image, NegativeAxes(f.direction))
                 ELSE f.image
    IN  IF read_header
        THEN [image |-> image, header |-> Header(f, reorient)]
        ELSE [image |-> image]

Cosines == {0 - 10, 0 - 5, 0 - 4, 0, 5, 10}
Metadata == { [spacing |-> <<7, 8, 25>>, origin |-> <<0 - 1200, 35, 0>>],
              [spacing |-> <<10, 10, 10>>, origin |-> <<0, 0, 0 - 5>>] }
OffDiagonal == {0, 0 - 7}

Files ==
    { [image     |-> Arange(s, 0),
       direction |-> [k \in 0..8 |-> IF k = 0 THEN dg[1]
                                     ELSE IF k = 4 THEN dg[2]
                                     ELSE IF k = 8 THEN dg[3] ELSE od],
       spacing   |-> m.spacing,
       origin    |-> m.origin] :
      s \in Shapes(1, MaxExtent), dg \in Cosines \X Cosines \X Cosines,
      od \in OffDiagonal, m \in Metadata }

Flags == BOOLEAN \X BOOLEAN

InitIO ==
    /\ file \in Files
    /\ rets = [fl \in Flags |-> <<>>]
    /\ img = Unused /\ calls = Unused /\ rz = Unused /\ x = Unused

CallReadItk ==
    /\ \E read_header \in BOOLEAN, reorient \in BOOLEAN :
         /\ rets[<<read_header, reorient>>] = <<>>
         /\ rets' = [rets EXCEPT ![<<read_header, reorient>>] =
                                    <<read_itk(file, read_header, reorient)>>]
    /\ UNCHANGED <<img, calls, rz, x, file>>

NextIO == CallReadItk

SpecIO == InitIO /\ [][NextIO]_vars

(***************************************************************************)
(* Properties of read_itk                                                  *)
(***************************************************************************)
Returned(read_header, reorient) == rets[<<read_header, reorient>>] # <<>>
Ret(read_header, reorient) == rets[<<read_header, reorient>>][1]

\* C8: with reorient the header direction is (1, 1, 1) whatever the file's
\* cosines; without it, it is (round(d[8]), round(d[4]), round(d[0])).
C8_HeaderDirection ==
    /\ Returned(TRUE, TRUE) => Ret(TRUE, TRUE).header.direction = <<1, 1, 1>>
    /\ Returned(TRUE, FALSE) =>
         Ret(TRUE, FALSE).header.direction =
             <<Round(file.direction[8]), Round(file.direction[4]), Round(file.direction[0])>>

\* Both headers were read from a file whose three principal cosines differ
\* after rounding and are not all positive.
C8_Witness ==
    /\ Returned(TRUE, TRUE) /\ Returned(TRUE, FALSE)
    /\ Round(file.direction[0]) # Round(file.direction[8])
    /\ file.direction[0] < 0
    /\ file.direction[4] = 0
    /\ Ret(TRUE, FALSE).header.direction # <<1, 1, 1>>

\* The axes of the array read_itk is to flip: axis 0 by d[8], axis 1 by
\* d[4], axis 2 by d[0].
AxisCosine(k) == file.direction[8 - 4 * (k - 1)]

C1_FlipTwiceIsIdentity ==
    \A n \in 1..(Len(calls) - 1) :
        calls[n].fn = calls[n + 1].fn =>
            /\ calls[n + 1].ret.shape = calls[n].arg.shape
            /\ calls[n + 1].ret.data = calls[n].arg.data

\* One chain applied a flip that moved elements twice in a row and flipped
\* an axis of extent 1 twice in a row.
C1_Witness ==
    /\ \E n \in 1..(Len(calls) - 1) :
        /\ calls[n].fn = calls[n + 1].fn
        /\ calls[n].ret # calls[n].arg
    /\ \E n \in 1..(Len(calls) - 1) :
        /\ calls[n].fn = calls[n + 1].fn
        /\ calls[n].arg.shape[FlipAxis(calls[n].fn)] = 1
        /\ Indices(calls[n].arg.shape) # {}

\* C2: two flips along different axes give the same array in either order.
C2_FlipsCommute ==
    \A n \in 1..(Len(calls) - 1) :
        calls[n].fn # calls[n + 1].fn =>
            calls[n + 1].ret =
                ApplyFlip(calls[n].fn, ApplyFlip(calls[n + 1].fn, calls[n].arg))

\* Two different flips were applied in a row and each of them moved elements.
C2_Witness ==
    \E n \in 1..(Len(calls) - 1) :
        /\ calls[n].fn # calls[n + 1].fn
        /\ calls[n].ret # calls[n].arg
        /\ calls[n + 1].ret # calls[n + 1].arg

(***************************************************************************)
(* Properties of crop and center_crop                                      *)
(***************************************************************************)
\* The requested region lies inside the volume a.
FullyInside(a, point, size) ==
    \A k \in 1..3 : point[k] >= 0 /\ size[k] >= 0 /\ point[k] + size[k] <= a.shape[k]

\* r is the block of a that starts at index start.
BlockAt(r, a, start) ==
    \A i \in Indices(r.shape) :
        LET j == <<start[1] + i[1], start[2] + i[2], start[3] + i[3]>>
        IN  j \in Indices(a.shape) /\ r.data[i] = a.data[j]

IsEmpty(r) == \E k \in 1..3 : r.shape[k] = 0

\* C5: a crop whose region lies inside img has exactly the requested shape,
\* its element (i, j, k) is img[z+i, y+j, x+k], and img is what it was when
\* the call was made.
C5_CropInside ==
    \A n \in 1..Len(calls) :
        LET c == calls[n] IN
        (c.fn = "crop" /\ FullyInside(c.arg, c.point, c.size)) =>
            /\ c.ret.shape = c.size
            /\ BlockAt(c.ret, c.arg, c.point)
            /\ img = c.arg

\* A crop of a non-empty region that starts off the origin and is smaller
\* than the volume.
C5_Witness ==
    \E n \in 1..Len(calls) :
        LET c == calls[n] IN
        /\ c.fn = "crop" /\ FullyInside(c.arg, c.point, c.size)
        /\ \A k \in 1..3 : c.size[k] >= 1
        /\ c.point[1] # c.point[3]
        /\ c.size # c.arg.shape

\* The result is smaller than requested on some axis, or empty.
Smaller(c) ==
    \/ \E k \in 1..3 : c.ret.shape[k] < c.size[k]
    \/ IsEmpty(c.ret)

\* The result is a block of the requested region: it lies at some offset o
\* inside the region and holds the elements of img found there.
PartOfRegion(c) ==
    \E o \in (0..Max(c.size[1], 0)) \X (0..Max(c.size[2], 0)) \X (0..Max(c.size[3], 0)) :
        /\ \A k \in 1..3 : o[k] + c.ret.shape[k] <= Max(c.size[k], 0)
        /\ BlockAt(c.ret, c.arg, <<c.point[1] + o[1], c.point[2] + o[2], c.point[3] + o[3]>>)

\* The result is the leading part of the requested region, cut down.
Truncated(c) ==
    /\ \A k \in 1..3 : c.ret.shape[k] <= Max(c.size[k], 0)
    /\ BlockAt(c.ret, c.arg, c.point)
    /\ Smaller(c)

\* C6 as stated: for every integer point and size, a crop whose region is
\* not fully inside img returns a truncated part of the requested region.
C6_Original ==
    \A n \in 1..Len(calls) :
        LET c == calls[n] IN
        (c.fn = "crop" /\ ~FullyInside(c.arg, c.point, c.size))
            => \/ IsEmpty(c.ret)
               \/ Smaller(c) /\ PartOfRegion(c)

\* No slice bound of the call is negative.
BoundsNonNegative(c) ==
    \A k \in 1..3 : c.point[k] >= 0 /\ c.point[k] + c.size[k] >= 0

\* C6 amended: when no slice bound is negative, a crop whose region is not
\* fully inside img returns a truncated part of the requested region:
\* smaller than requested on at least one axis, or empty.
C6_TruncatedWhenBoundsNonNegative ==
    \A n \in 1..Len(calls) :
        LET c == calls[n] IN
        (c.fn = "crop" /\ BoundsNonNegative(c) /\ ~FullyInside(c.arg, c.point, c.size))
            => Truncated(c)

\* A crop that runs over the end of one axis and returns a non-empty,
\* smaller block.
C6_Witness ==
    \E n \in 1..Len(calls) :
        LET c == calls[n] IN
        /\ c.fn = "crop" /\ BoundsNonNegative(c)
        /\ ~FullyInside(c.arg, c.point, c.size)
        /\ ~IsEmpty(c.ret)
        /\ \E k \in 1..3 : c.ret.shape[k] < c.size[k]

\* Leading margin of a centred window of extent ce in an axis of extent e.
CenterStart(e, ce) == (e - ce) \div 2

====
